---- MODULE Spec2Model ----
(***************************************************************************)
(* useCanvasImage (src/src/index.js): a React hook that mirrors a canvas   *)
(* into an <img> inserted right after it.  The model follows one mount of  *)
(* the hook: the render (option defaults, returned value), the mount       *)
(* effect (setCanvas with its 100 ms retry, and its cleanup), the          *)
(* useInterval call, createImgSrc and its requestAnimationFrame callback,  *)
(* and the host page acting on the document around it.                     *)
(***************************************************************************)
EXTENDS Integers, Sequences, FiniteSets, TLC

(* ---- bounds of the exploration ---------------------------------------- *)
MaxRetries == 2   \* reselect timeouts one mount may schedule
MaxCalls == 2     \* invocations of the returned value by the component
MaxTicks == 1     \* firings of the useInterval timer
MaxDraws == 1     \* times the page redraws the canvas

(* ---- module constants of index.js ------------------------------------- *)
IMG_STYLE == "position: absolute; top: 0; left: 0; z-index: 0;"
CANVAS_STYLE == "position: absolute; top: 0; left: 0; z-index: 1;"

(* ---- values ------------------------------------------------------------ *)
\* An `interval` option value: undefined (omitted), null, false or a number.
IntervalValue(t, ms) == [t |-> t, ms |-> ms]
Intervals ==
  { IntervalValue("undefined", 0), IntervalValue("null", 0),
    IntervalValue("false", 0), IntervalValue("number", 0),
    IntervalValue("number", 100) }

\* The three forms of the `canvas` option.
Forms == {"selector", "ref", "element"}

\* What the element named by the `canvas` option is: an HTMLCanvasElement
\* or an element of another kind (a div, say).
Kinds == {"canvas", "other"}

\* Strings that index.js splits are sequences of one-character strings.
ClassNames == { <<>>, <<"f", "s", " ", "x">> }
ImgClassNames == { <<>>, <<"m">> }

\* canvasAttributes objects, as functions from attribute name to value.
AttrNames == {"data-private", "style"}
NoAttr == "(absent)"
AttributeMaps ==
  { [a \in {} |-> ""],
    [a \in {"data-private", "style"} |->
       IF a = "style" THEN "z-index: 5;" ELSE "true"] }

FileTypes == {"image/jpeg"}
Qualities == {7}   \* tenths: the default quality is 0.7

\* Nodes of the canvas's parent: the element the `canvas` option names, a
\* sibling that follows it, and the images the hook creates (1, 2, ...).
Node(tag, n) == [tag |-> tag, n |-> n]
EL == Node("element", 0)
SIB == Node("sibling", 0)
ImgNode(n) == Node("img", n)

(* ---- pure helpers ------------------------------------------------------ *)
\* String.prototype.split(' ') on a sequence of characters.
RECURSIVE SplitFrom(_, _, _)
SplitFrom(s, i, cur) ==
  IF i > Len(s) THEN <<cur>>
  ELSE IF s[i] = " " THEN <<cur>> \o SplitFrom(s, i + 1, <<>>)
  ELSE SplitFrom(s, i + 1, Append(cur, s[i]))

Split(s) == SplitFrom(s, 1, <<>>)

\* classList.add(...tokens) on a class list kept as a set of tokens.
ClassListAdd(list, className) ==
  IF className = <<>> THEN list
  ELSE list \cup { Split(className)[k] : k \in 1..Len(Split(className)) }

IndexOf(seq, n) ==
  IF \E k \in 1..Len(seq) : seq[k] = n
  THEN CHOOSE k \in 1..Len(seq) : seq[k] = n
  ELSE 0

InDoc(seq, n) == IndexOf(seq, n) # 0

\* ChildNode.after(node): a no-op when the receiver has no parent.
After(seq, n, node) ==
  IF ~InDoc(seq, n) THEN seq
  ELSE LET k == IndexOf(seq, n)
       IN SubSeq(seq, 1, k) \o <<node>> \o SubSeq(seq, k + 1, Len(seq))

Remove(seq, n) == SelectSeq(seq, LAMBDA x : x # n)

\* canvas.toDataURL(fileType, quality): the pixels, encoded in the format;
\* the quality only matters for the lossy formats.
ToDataURL(px, type, q) ==
  [type |-> type,
   quality |-> IF type \in {"image/jpeg", "image/webp"} THEN q ELSE 0,
   data |-> px]

NoSrc == [type |-> "", quality |-> 0, data |-> 0]

(* ---- state ------------------------------------------------------------- *)
VARIABLES
  props,            \* the options object passed to the hook
  kind,             \* what the element named by props.canvas is
  doc,              \* children of the element's parent, in document order
  refCurrent,       \* ref form: canvas.current holds the element
  pixels,           \* the drawing currently on the element
  elAttrs,          \* the element's attributes
  elClasses,        \* the element's classList
  images,           \* the Image objects created by createImg
  phase,            \* "uninitialized", "mounted", "torn_down"
  returned,         \* what the hook returned: "none", "createImgSrc", "null"
  canvasRef,        \* canvasRef.current: "none" or "el"
  imgRef,           \* imgRef.current: 0 or the index of an image
  reselectTimeout,  \* the closure variable: 0 or the last timeout id
  pendingTimeouts,  \* timeout ids the host will still fire
  intervalArmed,    \* useInterval has a setInterval running
  rafQueue,         \* queued requestAnimationFrame callbacks, by origin
  triggerCalls,     \* invocations of the returned value so far
  ticks,            \* firings of the interval so far
  reads,            \* completed toDataURL reads
  abandons,         \* frame callbacks that returned at their guard
  srcAssigns,       \* assignments to imgRef.current.src
  setupCount,       \* runs of updateCanvas
  fault             \* "none" or the error last raised

vars == <<props, kind, doc, refCurrent, pixels, elAttrs, elClasses, images,
          phase, returned, canvasRef, imgRef, reselectTimeout,
          pendingTimeouts, intervalArmed, rafQueue, triggerCalls, ticks,
          reads, abandons, srcAssigns, setupCount, fault>>

world == <<kind, doc, refCurrent, pixels>>
dom == <<elAttrs, elClasses, images, imgRef, setupCount>>
ghosts == <<triggerCalls, ticks, reads, abandons, srcAssigns>>

(* ---- the render -------------------------------------------------------- *)
\* Destructuring default: `interval = null` applies to undefined only.
interval ==
  IF props.interval.t = "undefined" THEN IntervalValue("null", 0)
  ELSE props.interval

\* The return expression: interval === null || interval === false.
ManualByTruthiness(i) ==
  i.t \in {"null", "false"} \/ (i.t = "number" /\ i.ms = 0)

Manual(i) == i.t \in {"null", "false"}

\* useInterval(createImgSrc, interval): the hook of usehooks-ts, which is not
\* part of this repository.  By its contract, and by the comment at the call
\* ("passing `interval: null` disables") and the README ("null/false"), it
\* runs a timer for a numeric delay, 0 included, and none for null or false,
\* and it clears the timer on unmount.
ArmsTimerTruthy(delay) == delay.t = "number" /\ delay.ms # 0

ArmsTimer(delay) == delay.t = "number"

(* ---- setCanvas --------------------------------------------------------- *)
\* The value canvasRef.current holds after the three branches of setCanvas.
Resolve ==
  IF props.canvas = "selector"
  THEN IF InDoc(doc, EL) THEN "el" ELSE "none"
  ELSE IF props.canvas = "ref" /\ refCurrent /\ kind = "canvas" THEN "el"
  ELSE IF props.canvas = "element" /\ kind = "canvas" THEN "el"
  ELSE canvasRef

\* createImg: a new Image with the img classes and IMG_STYLE.
createImg ==
  [classes |-> ClassListAdd({}, props.imgClassname),
   style |-> IMG_STYLE,
   src |-> NoSrc]

\* updateCanvas: attributes, classes and style on the element, then the new
\* image, inserted after the element.
updateCanvas ==
  /\ elAttrs' =
       [a \in AttrNames |->
          IF a = "style" THEN CANVAS_STYLE
          ELSE IF a \in DOMAIN props.canvasAttributes
               THEN props.canvasAttributes[a]
               ELSE elAttrs[a]]
  /\ elClasses' = ClassListAdd(elClasses, props.canvasClassname)
  /\ images' = Append(images, createImg)
  /\ imgRef' = Len(images) + 1
  /\ doc' = After(doc, EL, ImgNode(Len(images) + 1))
  /\ setupCount' = setupCount + 1

\* setCanvas: resolve, then set up or schedule the next attempt.  `pending`
\* is the set of timeouts still queued when setCanvas runs.
setCanvasNoRetry(pending) ==
  /\ canvasRef' = Resolve
  /\ pendingTimeouts' = pending
  /\ UNCHANGED reselectTimeout
  /\ IF Resolve # "none" THEN updateCanvas ELSE UNCHANGED <<doc, dom>>

setCanvasAlwaysRetry(pending) ==
  /\ canvasRef' = Resolve
  /\ reselectTimeout < MaxRetries
  /\ reselectTimeout' = reselectTimeout + 1
  /\ pendingTimeouts' = pending \cup {reselectTimeout + 1}
  /\ IF Resolve # "none" THEN updateCanvas ELSE UNCHANGED <<doc, dom>>

setCanvas(pending) ==
  /\ canvasRef' = Resolve
  /\ IF Resolve # "none"
     THEN /\ updateCanvas
          /\ pendingTimeouts' = pending
          /\ UNCHANGED reselectTimeout
     ELSE /\ reselectTimeout < MaxRetries
          /\ reselectTimeout' = reselectTimeout + 1
          /\ pendingTimeouts' = pending \cup {reselectTimeout + 1}
          /\ UNCHANGED <<doc, dom>>

(* ---- initial states ---------------------------------------------------- *)
\* The options object.  Besides the options the hook destructures, a caller
\* may pass the class list under the names the README uses, `className` (its
\* examples) and `canvasClassName` (its argument list); a key that is not
\* passed reads as the empty string, which is also the default.
Props ==
  { o \in [canvas : Forms, imgClassname : ImgClassNames,
           canvasClassname : ClassNames, canvasClassName : ClassNames,
           className : ClassNames, canvasAttributes : AttributeMaps,
           fileType : FileTypes, quality : Qualities, interval : Intervals] :
      Cardinality({ k \in {"canvasClassname", "canvasClassName", "className"} :
                     o[k] # <<>> }) <= 1 }

Init ==
  /\ props \in Props
  /\ kind \in Kinds
  /\ doc \in { <<SIB>>, <<EL, SIB>> }
  /\ refCurrent \in (IF props.canvas = "ref" THEN BOOLEAN ELSE {FALSE})
  /\ pixels = 0
  /\ elAttrs = [a \in AttrNames |-> NoAttr]
  /\ elClasses = {}
  /\ images = <<>>
  /\ phase = "uninitialized"
  /\ returned = "none"
  /\ canvasRef = "none"
  /\ imgRef = 0
  /\ reselectTimeout = 0
  /\ pendingTimeouts = {}
  /\ intervalArmed = FALSE
  /\ rafQueue = <<>>
  /\ triggerCalls = 0
  /\ ticks = 0
  /\ reads = 0
  /\ abandons = 0
  /\ srcAssigns = 0
  /\ setupCount = 0
  /\ fault = "none"

(* ---- the hook's operations --------------------------------------------- *)
\* Mount: the render fixes the returned value, then the effects run:
\* setCanvas() once, and useInterval's setInterval.
Activate ==
  /\ phase = "uninitialized"
  /\ phase' = "mounted"
  /\ returned' = IF Manual(interval) THEN "createImgSrc" ELSE "null"
  /\ setCanvas(pendingTimeouts)
  /\ intervalArmed' = ArmsTimer(interval)
  /\ UNCHANGED <<props, kind, refCurrent, pixels, rafQueue, ghosts, fault>>

\* A queued reselect timeout fires and runs setCanvas again.
RetryFire ==
  /\ \E id \in pendingTimeouts : setCanvas(pendingTimeouts \ {id})
  /\ UNCHANGED <<props, kind, refCurrent, pixels, phase, returned,
                 intervalArmed, rafQueue, ghosts, fault>>

\* createImgSrc: queue one frame callback.  The entry records who called
\* createImgSrc and the phase the hook was in at that time.
FrameEntry(origin) == [origin |-> origin, queuedIn |-> phase]

createImgSrcCoalesced(origin) ==
  rafQueue' = IF rafQueue = <<>> THEN <<FrameEntry(origin)>> ELSE rafQueue

createImgSrc(origin) == rafQueue' = Append(rafQueue, FrameEntry(origin))

\* The component invokes the value the hook returned.
TriggerInvoke ==
  /\ phase # "uninitialized"
  /\ triggerCalls < MaxCalls
  /\ triggerCalls' = triggerCalls + 1
  /\ IF returned = "createImgSrc"
     THEN createImgSrc("trigger") /\ UNCHANGED fault
     ELSE /\ fault' = "TypeError: updateImage is not a function"
          /\ UNCHANGED rafQueue
  /\ UNCHANGED <<props, world, dom, phase, returned, canvasRef,
                 reselectTimeout, pendingTimeouts, intervalArmed, ticks,
                 reads, abandons, srcAssigns>>

\* The useInterval timer fires and calls createImgSrc.
IntervalTick ==
  /\ intervalArmed
  /\ ticks < MaxTicks
  /\ ticks' = ticks + 1
  /\ createImgSrc("timer")
  /\ UNCHANGED <<props, world, dom, phase, returned, canvasRef,
                 reselectTimeout, pendingTimeouts, intervalArmed,
                 triggerCalls, reads, abandons, srcAssigns, fault>>

\* The guard of the frame callback: !canvasRef.current || !imgRef.current.
FrameReadyUnchecked(c, i) == TRUE

FrameReady(c, i) == c # "none" /\ i # 0

\* imgRef.current.src = dataUrl: only the src of the image changes.
SetSrcResetStyle(img, dataUrl) == [img EXCEPT !.src = dataUrl, !.style = ""]

SetSrc(img, dataUrl) == [img EXCEPT !.src = dataUrl]

\* The oldest queued frame callback runs: the guard, then
\* canvasRef.current.toDataURL(fileType, quality), then imgRef.current.src =.
\* Calling toDataURL on null or on an element that has no such method, and
\* setting src on undefined, raise a TypeError.
FrameCallback ==
  /\ rafQueue # <<>>
  /\ rafQueue' = Tail(rafQueue)
  /\ IF ~FrameReady(canvasRef, imgRef)
     THEN /\ abandons' = abandons + 1
          /\ UNCHANGED <<images, reads, srcAssigns, fault>>
     ELSE IF canvasRef = "none" \/ kind # "canvas"
     THEN /\ fault' = "TypeError: toDataURL is not a function"
          /\ UNCHANGED <<images, reads, abandons, srcAssigns>>
     ELSE IF imgRef = 0
     THEN /\ reads' = reads + 1
          /\ fault' = "TypeError: cannot set property src"
          /\ UNCHANGED <<images, abandons, srcAssigns>>
     ELSE /\ reads' = reads + 1
          /\ UNCHANGED abandons
          /\ images' =
               [images EXCEPT ![imgRef] =
                  SetSrc(@, ToDataURL(pixels, props.fileType, props.quality))]
          /\ srcAssigns' = srcAssigns + 1
          /\ UNCHANGED fault
  /\ UNCHANGED <<props, world, elAttrs, elClasses, imgRef, setupCount, phase,
                 returned, canvasRef, reselectTimeout, pendingTimeouts,
                 intervalArmed, triggerCalls, ticks>>

\* The effect cleanup: if (reselectTimeout) clearTimeout(reselectTimeout).
CleanupNoClear(pending, id) == pending

CleanupFirstOnly(pending, id) == IF id # 0 THEN pending \ {1} ELSE pending

Cleanup(pending, id) == IF id # 0 THEN pending \ {id} ELSE pending

\* Unmount: the mount effect's cleanup and useInterval's clearInterval.
Deactivate ==
  /\ phase = "mounted"
  /\ phase' = "torn_down"
  /\ pendingTimeouts' = Cleanup(pendingTimeouts, reselectTimeout)
  /\ intervalArmed' = FALSE
  /\ UNCHANGED <<props, world, dom, returned, canvasRef, reselectTimeout,
                 rafQueue, ghosts, fault>>

\* The host renders the mounted component again with another `interval`:
\* the return expression is evaluated with the new value, and useInterval,
\* whose effect depends on the delay, clears its timer and sets a new one.
\* The mount effect has no dependencies and does not run again.  The new
\* value is a duration or the disabled marker.
RerenderIntervals == { IntervalValue("null", 0), IntervalValue("number", 100) }

Rerender ==
  /\ phase = "mounted"
  /\ \E i \in RerenderIntervals \ {props.interval} :
       props' = [props EXCEPT !.interval = i]
  /\ returned' = IF Manual(interval') THEN "createImgSrc" ELSE "null"
  /\ intervalArmed' = ArmsTimer(interval')
  /\ UNCHANGED <<world, dom, phase, canvasRef, reselectTimeout,
                 pendingTimeouts, rafQueue, ghosts, fault>>

(* ---- the host page ----------------------------------------------------- *)
\* The element is attached to its parent, before the sibling.
HostAttach ==
  /\ phase # "uninitialized"
  /\ ~InDoc(doc, EL)
  /\ doc' = <<EL>> \o doc
  /\ UNCHANGED <<props, kind, refCurrent, pixels, dom, phase, returned,
                 canvasRef, reselectTimeout, pendingTimeouts, intervalArmed,
                 rafQueue, ghosts, fault>>

\* An outside party removes the element from the document.
HostRemove ==
  /\ phase # "uninitialized"
  /\ InDoc(doc, EL)
  /\ doc' = Remove(doc, EL)
  /\ UNCHANGED <<props, kind, refCurrent, pixels, dom, phase, returned,
                 canvasRef, reselectTimeout, pendingTimeouts, intervalArmed,
                 rafQueue, ghosts, fault>>

\* The host framework fills or clears the ref object passed as `canvas`.
HostSetRef ==
  /\ phase # "uninitialized"
  /\ props.canvas = "ref"
  /\ refCurrent' = ~refCurrent
  /\ UNCHANGED <<props, kind, doc, pixels, dom, phase, returned, canvasRef,
                 reselectTimeout, pendingTimeouts, intervalArmed, rafQueue,
                 ghosts, fault>>

\* The page draws on the canvas.
Draw ==
  /\ phase # "uninitialized"
  /\ kind = "canvas"
  /\ pixels < MaxDraws
  /\ pixels' = pixels + 1
  /\ UNCHANGED <<props, kind, doc, refCurrent, dom, phase, returned,
                 canvasRef, reselectTimeout, pendingTimeouts, intervalArmed,
                 rafQueue, ghosts, fault>>

Next ==
  \/ Activate
  \/ RetryFire
  \/ TriggerInvoke
  \/ IntervalTick
  \/ FrameCallback
  \/ Deactivate
  \/ HostAttach
  \/ HostRemove
  \/ HostSetRef
  \/ Draw

Spec == Init /\ [][Next]_vars

\* Timers and frame callbacks the host has queued do fire.
FairSpec == Spec /\ WF_vars(RetryFire) /\ WF_vars(FrameCallback)

\* The same hook under a host that also re-renders it with another
\* interval.  The class and attribute options, which the re-render does not
\* touch, are left at their defaults here.
InitRerender ==
  /\ Init
  /\ props.imgClassname = <<>>
  /\ props.canvasClassname = <<>>
  /\ props.canvasClassName = <<>>
  /\ props.className = <<>>
  /\ DOMAIN props.canvasAttributes = {}

NextRerender ==
  \/ Next
  \/ Rerender

RerenderSpec == InitRerender /\ [][NextRerender]_vars

(* ---- properties -------------------------------------------------------- *)
\* The capture mode the `interval` option asks for: manual when it is
\* omitted, null or false, periodic for any number.
ManualOption == props.interval.t \in {"undefined", "null", "false"}

Activated == phase # "uninitialized"
FrameStep == Len(rafQueue') < Len(rafQueue)
TriggerStep == triggerCalls' = triggerCalls + 1
SurfaceResolved == canvasRef = "el" /\ kind = "canvas" /\ imgRef # 0
ImageNodes(d) == { k \in 1..Len(d) : d[k].tag = "img" }
ImgFollowsEl ==
  /\ InDoc(doc, EL)
  /\ IndexOf(doc, EL) < Len(doc)
  /\ doc[IndexOf(doc, EL) + 1] = ImgNode(imgRef)
  /\ Cardinality(ImageNodes(doc)) = 1

\* C1: in periodic mode the returned value is a callable no-op: invoking it
\* queues no capture, leaves the mirror image alone and raises no error.
C1_PeriodicReturnIsNoop ==
  [][(Activated /\ ~ManualOption /\ TriggerStep)
       => (returned # "null" /\ UNCHANGED <<rafQueue, images, fault>>)]_vars

\* C2: in manual mode an invocation of the returned trigger queues exactly
\* one frame callback and assigns nothing itself; with the surface resolved
\* and the image created every frame callback assigns the image's src exactly
\* once; the src is assigned nowhere else, so the invocations are the
\* assignments, the abandoned callbacks and the callbacks still queued.
C2_ManualCaptureOncePerInvocation ==
  [][(Activated /\ ManualOption) =>
       /\ TriggerStep =>
            /\ rafQueue' = Append(rafQueue, FrameEntry("trigger"))
            /\ UNCHANGED <<images, srcAssigns, reads>>
       /\ (FrameStep /\ SurfaceResolved) =>
            /\ rafQueue' = Tail(rafQueue)
            /\ srcAssigns' = srcAssigns + 1
            /\ images'[imgRef].src =
                 ToDataURL(pixels, props.fileType, props.quality)
       /\ (\/ srcAssigns' # srcAssigns
           \/ (images' # images /\ setupCount' = setupCount)) => FrameStep
       /\ kind = "canvas" =>
            srcAssigns' + abandons' + Len(rafQueue') = triggerCalls'
       /\ triggerCalls' = 0 => srcAssigns' = 0]_vars

C2_Witness ==
  /\ ManualOption
  /\ SurfaceResolved
  /\ triggerCalls >= 2
  /\ srcAssigns = triggerCalls

C4_SetupOnceImageFollowsSurface ==
  [][/\ setupCount' <= 1
     /\ Len(images') = setupCount'
     /\ (canvasRef' # "none") <=> (setupCount' = 1)
     /\ (setupCount' = setupCount + 1) => ImgFollowsEl']_vars

\* C5: once deactivated with resolution still pending, the hook never sets
\* up: no image is created or inserted and the element's attributes and
\* classes stay as they were, whatever the page does afterwards.
C5_NoSetupAfterEarlyDeactivation ==
  [][(phase = "torn_down" /\ setupCount = 0) =>
       /\ UNCHANGED <<elAttrs, elClasses, images, imgRef, setupCount,
                      canvasRef>>
       /\ ImageNodes(doc') = ImageNodes(doc)]_vars

C5_Witness ==
  /\ phase = "torn_down"
  /\ setupCount = 0
  /\ reselectTimeout > 0
  /\ Resolve # "none"

\* C6: while mounted and unresolved, a surface that is there to be resolved
\* and stays there is eventually resolved and its image created.
C6_EventuallyResolves ==
  (phase = "mounted" /\ canvasRef = "none" /\ Resolve # "none")
    ~> \/ (canvasRef # "none" /\ imgRef # 0 /\ setupCount > 0)
       \/ phase = "torn_down"
       \/ Resolve = "none"

C6_Witness ==
  /\ phase = "mounted"
  /\ reselectTimeout >= 2
  /\ canvasRef = "el"
  /\ imgRef # 0

\* C7: a frame callback reads the surface and assigns the src only when both
\* canvasRef.current and imgRef.current are set; otherwise it abandons,
\* changing nothing and raising nothing.
C7_CaptureOnlyWhenBothExist ==
  [][/\ (\/ reads' # reads
         \/ srcAssigns' # srcAssigns
         \/ (images' # images /\ setupCount' = setupCount))
          => (FrameStep /\ canvasRef # "none" /\ imgRef # 0 /\ setupCount > 0)
     /\ (FrameStep /\ (canvasRef = "none" \/ imgRef = 0))
          => UNCHANGED <<reads, srcAssigns, images, fault>>]_vars

C7_Witness ==
  /\ abandons > 0
  /\ canvasRef = "el"
  /\ srcAssigns > 0

\* C8: a frame callback queued before deactivation that runs after it
\* abandons: it neither reads the surface nor assigns the image's src.
C8_QueuedCaptureAbandonsAfterDeactivation ==
  [][(FrameStep /\ phase = "torn_down" /\ Head(rafQueue).queuedIn = "mounted")
       => UNCHANGED <<reads, srcAssigns, images>>]_vars

\* C9: no operation ever raises an error.
C9_NoFault == fault = "none"

\* C10: setup runs only on an element that is a canvas.
C10_ResolvedIsCanvas ==
  (canvasRef # "none" \/ setupCount > 0) => kind = "canvas"

Tokens(className) == ClassListAdd({}, className)
SystemStep ==
  \/ phase' # phase
  \/ rafQueue' # rafQueue
  \/ triggerCalls' # triggerCalls
  \/ pendingTimeouts' # pendingTimeouts

C12_AttributesAndClassesApplied ==
  setupCount > 0 =>
    /\ \A a \in DOMAIN props.canvasAttributes :
         elAttrs[a] = props.canvasAttributes[a]
    /\ Tokens(props.canvasClassname) \subseteq elClasses

\* C13: a class list passed under the README's option names, className or
\* canvasClassName, is on the element after setup, and the image exists.
C13_ReadmeClassOptionApplied ==
  (setupCount > 0 /\ (props.className # <<>> \/ props.canvasClassName # <<>>))
    => /\ Tokens(props.className) \subseteq elClasses
       /\ Tokens(props.canvasClassName) \subseteq elClasses
       /\ imgRef # 0

C15_TriggerAfterDeactivationIsInert ==
  [][(FrameStep /\ Head(rafQueue).queuedIn = "torn_down")
       => UNCHANGED <<reads, srcAssigns, images>>]_vars

\* C16: after deactivation no timer of the hook is left and none ever runs:
\* no reselect timeout fires, whichever attempt was pending, and the interval
\* does not tick.
C16_DeactivationCancelsTimers ==
  /\ [](phase = "torn_down" => (pendingTimeouts = {} /\ ~intervalArmed))
  /\ [][phase = "torn_down" =>
          UNCHANGED <<reselectTimeout, pendingTimeouts, intervalArmed, ticks,
                      setupCount, canvasRef>>]_vars

C16_Witness ==
  /\ phase = "torn_down"
  /\ canvasRef = "none"
  /\ reselectTimeout >= 2

\* C17: a frame callback that runs after the resolved surface was removed
\* from the document abandons: no read, no assignment, no error.
C17_RemovedSurfaceIsNotCaptured ==
  [][(/\ FrameStep
      /\ canvasRef = "el"
      /\ kind = "canvas"
      /\ ImageNodes(doc) # {}
      /\ ~InDoc(doc, EL))
       => UNCHANGED <<reads, srcAssigns, images, fault>>]_vars

\* C18: setup runs only for a surface that is in the document, so the image
\* it creates ends up in the document.
C18_SetupOnlyForAttachedSurface ==
  [][(setupCount' = setupCount + 1)
       => (InDoc(doc, EL) /\ ImageNodes(doc') # {})]_vars

\* C19: at most one reselect timeout is pending; exactly one, the latest
\* scheduled, while mounted and unresolved; none once resolved, torn down or
\* before activation.
C19_OneRetryTimerWhileResolving ==
  /\ Cardinality(pendingTimeouts) <= 1
  /\ (phase = "mounted" /\ canvasRef = "none")
       => (reselectTimeout > 0 /\ pendingTimeouts = {reselectTimeout})
  /\ (phase # "mounted" \/ canvasRef # "none") => pendingTimeouts = {}

C19_Witness ==
  /\ phase = "mounted"
  /\ canvasRef = "none"
  /\ reselectTimeout >= 2
  /\ pendingTimeouts = {reselectTimeout}

\* C20: after setup no step changes the element's attributes or classes or
\* the images' classes and style, no step of the hook changes the document
\* or the pixels, and a capture changes the src of the one image only.
C20_AfterSetupOnlySrcChanges ==
  [][setupCount > 0 =>
       /\ UNCHANGED <<elAttrs, elClasses, imgRef, setupCount>>
       /\ Len(images') = Len(images)
       /\ \A k \in 1..Len(images) :
            /\ images'[k].classes = images[k].classes
            /\ images'[k].style = images[k].style
            /\ (images'[k].src # images[k].src) => (k = imgRef /\ FrameStep)
       /\ SystemStep => UNCHANGED <<doc, pixels>>]_vars

C20_Witness ==
  /\ setupCount > 0
  /\ phase = "torn_down"
  /\ srcAssigns > 0
  /\ images[imgRef].src.data = pixels
====
